---- MODULE Spec2Model ----
(***************************************************************************)
(* pyro.poutine.handlers: the queue() enumeration algorithm, the Seed      *)
(* messenger and the messenger stack they run on.                          *)
(*                                                                         *)
(* Spec      one call of a queue-wrapped function, made inside ambient     *)
(*           messenger scopes.                                             *)
(* LiveSpec  Spec with the call running to its end (weak fairness).        *)
(* SeedSpec  Seed scopes, messenger scopes and draws from the global RNG.  *)
(* ApiSpec   the module's top-level code publishing the handlers, then     *)
(*           calls of the generated handlers and of markov.                *)
(***************************************************************************)
EXTENDS Integers, Sequences, FiniteSets, TLC

\* ------------------------------------------------------------------ bounds
MaxTriesBound == 4      \* max_tries ranges over 0..MaxTriesBound
MaxSites == 2           \* discrete sample sites of the wrapped function
MaxSupport == 2         \* size of the support of each discrete site
MaxDepth == 2           \* nesting depth of the scopes opened by the caller
RngMod == 4             \* number of states of the global RNG
MaxCalls == 2           \* calls of handlers and of markov after the module is loaded

VARIABLES
    \* ---- the program's state
    PYRO_STACK,     \* the active-messenger stack (runtime._PYRO_STACK), first pushed first
    queue,          \* the caller-supplied queue's content, in put() order
    qkind,          \* its discipline: "FIFO" (queue.Queue) or "LIFO" (queue.LifoQueue)
    max_tries,      \* argument of queue()
    numSites,       \* the wrapped function: discrete sites 1..numSites, visited in order
    support,        \* each site's support is 1..support
    failAt,         \* the wrapped function raises RuntimeError after site failAt took value 1
    pc,             \* position inside _fn
    i,              \* the loop variable of `for i in range(max_tries)`
    next_trace,     \* the partial trace popped for this iteration
    ftr_trace,      \* ftr.trace: what the Trace messenger recorded in this run
    site,           \* site_container.site of the NonlocalExit caught (0: none)
    signal,         \* how the run ended: "return", "NonlocalExit", "Error"
    exts,           \* the successors extend_fn returned that are still to be put
    result,         \* <<v>> once _fn returned v
    outcome,        \* how the call ended
    rng,            \* the global RNG state
    old_state,      \* SeedMessenger.old_state, per Seed object (<<>>: never set)
    scopes,         \* the caller's open `with` scopes, outermost first
    raising,        \* an exception is propagating through the caller's scopes
    modpc,          \* position in the module's top-level code
    regIdx,         \* how many classes of _msngrs the handler loop has done
    namespace,      \* the module's names: handler name -> what it is bound to
    nmsngrs,        \* messenger objects constructed by handler calls so far
    ret,            \* what the last call of a handler or of markov gave
    \* ---- history of the run, read by the properties only
    hist

vars == <<PYRO_STACK, queue, qkind, max_tries, numSites, support, failAt, pc, i,
          next_trace, ftr_trace, site, signal, exts, result, outcome,
          rng, old_state, scopes, raising,
          modpc, regIdx, namespace, nmsngrs, ret, hist>>

apivars == <<modpc, regIdx, namespace, nmsngrs, ret>>
qcfg == <<qkind, max_tries, numSites, support, failAt>>
seedvars == <<rng, old_state, scopes, raising>>
fnvars == <<queue, qcfg, apivars, pc, i, next_trace, ftr_trace, site, signal, exts, result, outcome>>

\* ------------------------------------------------------------ small helpers
Last(s) == s[Len(s)]
Front(s) == SubSeq(s, 1, Len(s) - 1)
Range(s) == {s[k] : k \in 1..Len(s)}

RECURSIVE Pow(_, _)
Pow(b, e) == IF e = 0 THEN 1 ELSE b * Pow(b, e - 1)

RECURSIVE SumPow(_, _)
\* b^0 + b^1 + ... + b^(n-1)
SumPow(b, n) == IF n = 0 THEN 0 ELSE Pow(b, n - 1) + SumPow(b, n - 1)

\* ------------------------------------------------------ the messenger stack
\* runtime push: append at the end of the active list.
Push(st, m) == Append(st, m)

FirstIndex(st, m) == IF m \in Range(st)
                     THEN CHOOSE k \in 1..Len(st) : st[k] = m /\ \A j \in 1..(k - 1) : st[j] # m
                     ELSE 0

\* runtime pop on scope exit: removes the messenger, and on an exceptional exit
\* everything pushed since its enter.
Pop(st, m) == IF FirstIndex(st, m) = 0 THEN st ELSE SubSeq(st, 1, FirstIndex(st, m) - 1)

\* A pop is clean when the messenger is the last one pushed.
CleanPop(st, m) == st # <<>> /\ Last(st) = m

\* NonlocalExit.reset_stack(): resets the frames that remain on the stack; the
\* messengers of the run have been released by their own scopes.
reset_stack(st) == st

\* ---------------------------------------------------- the caller's queue
QEmpty(q) == q = <<>>
QPut(q, x) == Append(q, x)
QGetItem(q, kind) == IF kind = "LIFO" THEN Last(q) ELSE Head(q)
QGetRest(q, kind) == IF kind = "LIFO" THEN Front(q) ELSE Tail(q)

\* ------------------------------------------------- the wrapped function
\* A partial trace is the sequence of values of sites 1..Len(tr).
\* Under Replay(trace=tr) the sites in tr take their recorded value.
RunRaises(tr) == failAt > 0 /\ failAt <= numSites /\ Len(tr) >= failAt /\ tr[failAt] = 1

\* util.discrete_escape(tr, site): a discrete site that is not in tr.
escape_fn(tr, s) == s > Len(tr)

\* The first site at which Escape raises NonlocalExit (0: none).
EscapeSite(tr) == IF \E s \in 1..numSites : escape_fn(tr, s)
                  THEN CHOOSE s \in 1..numSites :
                           escape_fn(tr, s) /\ \A r \in 1..(s - 1) : ~escape_fn(tr, r)
                  ELSE 0

RunSignal(tr) == IF RunRaises(tr) THEN "Error"
                 ELSE IF EscapeSite(tr) # 0 THEN "NonlocalExit"
                 ELSE "return"

\* What the Trace messenger holds when the run ends: the sites that were
\* processed to the end (the escaping site is stopped before Trace sees it).
RunTrace(tr) == IF RunRaises(tr) THEN SubSeq(tr, 1, failAt)
                ELSE IF EscapeSite(tr) # 0 THEN SubSeq(tr, 1, EscapeSite(tr) - 1)
                ELSE SubSeq(tr, 1, numSites)

\* The wrapped function's return value, a function of the values of its sites.
RetVal(tr) == <<"ret", tr>>

\* util.enum_extend(trace, site): one successor per value of the site's support.
extend_fn(tr, s) == [v \in 1..support |-> Append(tr, v)]

\* ------------------------------------------------------- the global RNG
\* pyro.util.set_rng_seed / get_rng_state / set_rng_state, and one draw.
set_rng_seed(s) == s % RngMod
get_rng_state(r) == r
set_rng_state(st) == st
Sample(r) == r
Advance(r) == (r + 1) % RngMod

\* The Seed handler objects of the program and their rng_seed.
SeedObjs == {"seedA", "seedB"}
rng_seed(o) == IF o = "seedA" THEN 42 ELSE 1

\* Messengers of the base class that the caller opens as scopes.
AmbientMsngrs == {"block", "scale"}
SeedSpecMsngrs == {"block"}

\* ---------------------------------------------------------------- Init
NoHist == [runs |-> 0, pops |-> 0, puts |-> 0, checks |-> 0,
           ends |-> <<>>, order |-> <<>>, got |-> <<>>, startStacks |-> <<>>,
           base |-> <<>>, qAfterGet |-> <<>>, extCalls |-> <<>>, extRet |-> <<>>,
           badPop |-> FALSE, errArg |-> 0, q0 |-> <<>>, closed |-> 0,
           fresh |-> FALSE, first |-> <<>>, disp |-> <<>>,
           call |-> [api |-> "", cls |-> <<>>, fn |-> "None", args |-> <<>>, n0 |-> 0]]

\* ------------------------------------------------ the module's handlers
\* Names are sequences of characters.
UpperCase == <<"A", "B", "C", "D", "E", "F", "G", "H", "I", "J", "K", "L", "M">>
             \o <<"N", "O", "P", "Q", "R", "S", "T", "U", "V", "W", "X", "Y", "Z">>
LowerCase == <<"a", "b", "c", "d", "e", "f", "g", "h", "i", "j", "k", "l", "m">>
             \o <<"n", "o", "p", "q", "r", "s", "t", "u", "v", "w", "x", "y", "z">>
Digits == {"0", "1", "2", "3", "4", "5", "6", "7", "8", "9"}

IsUpper(c) == c \in Range(UpperCase)
IsLower(c) == c \in Range(LowerCase)
IsDigit(c) == c \in Digits

\* str.lower()
lower(s) == [k \in 1..Len(s) |->
                IF IsUpper(s[k])
                THEN LowerCase[CHOOSE j \in 1..Len(UpperCase) : UpperCase[j] = s[k]]
                ELSE s[k]]

\* s.split(sep)[0]: what precedes the first occurrence of sep, all of s
\* when there is none.
IsAt(s, sep, p) == p + Len(sep) - 1 <= Len(s) /\ SubSeq(s, p, p + Len(sep) - 1) = sep

split0(s, sep) ==
    IF \E p \in 1..Len(s) : IsAt(s, sep, p)
    THEN SubSeq(s, 1, (CHOOSE p \in 1..Len(s) :
                          IsAt(s, sep, p) /\ \A q \in 1..(p - 1) : ~IsAt(s, sep, q)) - 1)
    ELSE s

\* The end of the longest run of lower-case letters that starts at p.
RECURSIVE LowerRunEnd(_, _)
LowerRunEnd(s, p) == IF p + 1 <= Len(s) /\ IsLower(s[p + 1])
                     THEN LowerRunEnd(s, p + 1) ELSE p

\* _re1.sub(r'\1_\2', s) with _re1 = '(.)([A-Z][a-z]+)', scanning from p:
\* leftmost matches, the lower-case run taken greedily, no overlap.
RECURSIVE re1_sub_from(_, _)
re1_sub_from(s, p) ==
    IF p > Len(s) THEN <<>>
    ELSE IF p + 2 <= Len(s) /\ IsUpper(s[p + 1]) /\ IsLower(s[p + 2])
         THEN <<s[p], "_">> \o SubSeq(s, p + 1, LowerRunEnd(s, p + 2))
                  \o re1_sub_from(s, LowerRunEnd(s, p + 2) + 1)
         ELSE <<s[p]>> \o re1_sub_from(s, p + 1)

re1_sub(s) == re1_sub_from(s, 1)

\* _re2.sub(r'\1_\2', s) with _re2 = '([a-z0-9])([A-Z])', scanning from p.
RECURSIVE re2_sub_from(_, _)
re2_sub_from(s, p) ==
    IF p > Len(s) THEN <<>>
    ELSE IF p + 1 <= Len(s) /\ (IsLower(s[p]) \/ IsDigit(s[p])) /\ IsUpper(s[p + 1])
         THEN <<s[p], "_", s[p + 1]>> \o re2_sub_from(s, p + 2)
         ELSE <<s[p]>> \o re2_sub_from(s, p + 1)

re2_sub(s) == re2_sub_from(s, 1)

Messenger == <<"M", "e", "s", "s", "e", "n", "g", "e", "r">>

\* Mutant: the name is only lower-cased, no underscore at the word boundaries.
handler_name_NoUnderscore(cls) == lower(split0(cls, Messenger))

\* _handler_name: _re2.sub(.., _re1.sub(.., cls.__name__.split("Messenger")[0])).lower()
handler_name(cls) == lower(re2_sub(re1_sub(split0(cls, Messenger))))

\* The __name__ of the messenger classes.
BlockMessenger == <<"B", "l", "o", "c", "k">> \o Messenger
BroadcastMessenger == <<"B", "r", "o", "a", "d", "c", "a", "s", "t">> \o Messenger
ConditionMessenger == <<"C", "o", "n", "d", "i", "t", "i", "o", "n">> \o Messenger
DoMessenger == <<"D", "o">> \o Messenger
EnumMessenger == <<"E", "n", "u", "m">> \o Messenger
EscapeMessenger == <<"E", "s", "c", "a", "p", "e">> \o Messenger
InferConfigMessenger == <<"I", "n", "f", "e", "r", "C", "o", "n", "f", "i", "g">> \o Messenger
LiftMessenger == <<"L", "i", "f", "t">> \o Messenger
MarkovMessenger == <<"M", "a", "r", "k", "o", "v">> \o Messenger
MaskMessenger == <<"M", "a", "s", "k">> \o Messenger
ReplayMessenger == <<"R", "e", "p", "l", "a", "y">> \o Messenger
ScaleMessenger == <<"S", "c", "a", "l", "e">> \o Messenger
SeedMessenger == <<"S", "e", "e", "d">> \o Messenger
TraceMessenger == <<"T", "r", "a", "c", "e">> \o Messenger
UnconditionMessenger == <<"U", "n", "c", "o", "n", "d", "i", "t", "i", "o", "n">> \o Messenger

_msngrs == <<BlockMessenger, BroadcastMessenger, ConditionMessenger, DoMessenger,
             EnumMessenger, EscapeMessenger, InferConfigMessenger, LiftMessenger,
             MarkovMessenger, MaskMessenger, ReplayMessenger, ScaleMessenger,
             SeedMessenger, TraceMessenger, UnconditionMessenger>>

\* What a name of the module is bound to: the handler _make_handler made for
\* a class, or a function the module defines itself.
GeneratedHandler(cls) == [kind |-> "handler", cls |-> cls]
ModuleDef(cls) == [kind |-> "def", cls |-> cls]

\* locals()[name] = value
Bind(ns, name, value) == [n \in DOMAIN ns \cup {name} |-> IF n = name THEN value ELSE ns[n]]

\* The names after the loop has done the first k classes.
RECURSIVE Published(_)
Published(k) ==
    IF k = 0 THEN <<>>
    ELSE Bind(Published(k - 1), handler_name(_msngrs[k]), GeneratedHandler(_msngrs[k]))

queue_name == <<"q", "u", "e", "u", "e">>
markov_name == <<"m", "a", "r", "k", "o", "v">>

\* The names once the module is loaded: the loop, then def queue, def markov.
LoadedNamespace ==
    Bind(Bind(Published(Len(_msngrs)), queue_name, ModuleDef(<<>>)),
         markov_name, ModuleDef(MarkovMessenger))

\* Values passed to the handlers.
None == "None"
\* "fn_wrapped": a function a handler has already wrapped (handlers compose).
Callables == {"fn_f", "fn_wrapped"}
NonCallables == {"int_3", "dict_d"}
FnValues == {None} \cup Callables \cup NonCallables
callable(v) == v \in Callables
\* isinstance(v, int): the ints, and the bools (bool is a subclass of int).
IntValues == {"int_1", "int_2", "int_3", "False", "True"}
isint(v) == v \in IntValues

\* The remaining arguments of a generated handler, and markov's keywords.
ArgValues == {<<>>, <<"int_3">>, <<"True">>, <<"dict_d">>}
HistoryValues == {"int_1", "int_2"}
KeepValues == {"False", "True"}
DimValues == {None, "int_3"}
NameValues == {None, "str_x"}

NoMsngr == [cls |-> <<>>, args |-> <<>>, id |-> 0]
NoRet == [kind |-> "none", exc |-> "", arg |-> "", msngr |-> NoMsngr, fn |-> None]

Raised(exc, arg) == [NoRet EXCEPT !.kind = "raise", !.exc = exc, !.arg = arg]

\* msngr_cls(*args, **kwargs): a new messenger object.  SeedMessenger takes
\* rng_seed and asserts that it is an int; the other classes' constructors
\* take what they are given.
Construct(cls, args, id) ==
    IF cls = SeedMessenger /\ Len(args) # 1 THEN Raised("TypeError", "")
    ELSE IF cls = SeedMessenger /\ ~isint(args[1]) THEN Raised("AssertionError", "")
    ELSE [NoRet EXCEPT !.kind = "msngr", !.msngr = [cls |-> cls, args |-> args, id |-> id]]

\* msngr(fn): Messenger.__call__, fn wrapped to run inside the messenger's scope.
Wrap(m, fn) == [m EXCEPT !.kind = "wrapped", !.fn = fn]

\* msngr.generator(iterable=fn)
Generator(m, fn) == [m EXCEPT !.kind = "generator", !.fn = fn]

\* Mutant: the messenger is constructed before the first argument is looked at.
handler_ConstructFirst(cls, fn, args, id) ==
    IF Construct(cls, args, id).kind = "raise" THEN Construct(cls, args, id)
    ELSE IF fn # None /\ ~callable(fn) THEN Raised("ValueError", fn)
    ELSE IF fn # None THEN Wrap(Construct(cls, args, id), fn)
    ELSE Construct(cls, args, id)

\* _make_handler(msngr_cls).handler(fn=None, *args, **kwargs)
handler(cls, fn, args, id) ==
    IF fn # None /\ ~callable(fn) THEN Raised("ValueError", fn)
    ELSE IF Construct(cls, args, id).kind = "raise" THEN Construct(cls, args, id)
    ELSE IF fn # None THEN Wrap(Construct(cls, args, id), fn)
    ELSE Construct(cls, args, id)

\* Mutant: a non-callable first argument is rejected as the generated handlers do.
markov_Rejects(fn, history, keep, dim, name, id) ==
    handler(MarkovMessenger, fn, <<history, keep, dim, name>>, id)

\* markov(fn=None, history=1, keep=False, dim=None, name=None)
markov(fn, history, keep, dim, name, id) ==
    IF fn = None
    THEN Construct(MarkovMessenger, <<history, keep, dim, name>>, id)
    ELSE IF ~callable(fn)
    THEN Generator(Construct(MarkovMessenger, <<history, keep, dim, name>>, id), fn)
    ELSE Wrap(Construct(MarkovMessenger, <<history, keep, dim, name>>, id), fn)

\* The module has been imported; no handler has been called yet.
InitLoaded ==
    /\ modpc = "loaded" /\ regIdx = Len(_msngrs)
    /\ namespace = LoadedNamespace
    /\ nmsngrs = 0 /\ ret = NoRet

\* The queues the caller seeds: nothing, one empty partial trace, two of them.
InitQueues == { <<>>, << <<>> >>, << <<>>, <<>> >> }

InitScopes ==
    /\ PYRO_STACK = <<>>
    /\ scopes = <<>>
    /\ rng = 0
    /\ old_state = [o \in SeedObjs |-> <<>>]
    /\ raising = FALSE
    /\ hist = NoHist

InitIdle ==
    /\ pc = "idle" /\ i = 0
    /\ next_trace = <<>> /\ ftr_trace = <<>> /\ site = 0
    /\ signal = "none" /\ exts = <<>> /\ result = <<>> /\ outcome = "none"

Init ==
    /\ InitScopes
    /\ InitIdle
    /\ InitLoaded
    /\ queue \in InitQueues
    /\ qkind \in {"FIFO", "LIFO"}
    /\ max_tries \in 0..MaxTriesBound
    /\ numSites \in 0..MaxSites
    /\ support \in 0..MaxSupport
    /\ failAt \in 0..numSites

\* ------------------------------------------------- messenger scopes
\* Messenger.__enter__: push self onto the stack.
MessengerEnter(m) ==
    /\ pc = "idle" /\ ~raising
    /\ Len(scopes) < MaxDepth
    /\ m \notin Range(PYRO_STACK)
    /\ PYRO_STACK' = Push(PYRO_STACK, m)
    /\ scopes' = Append(scopes, [kind |-> "msngr", obj |-> m, before |-> 0])
    /\ UNCHANGED <<queue, qcfg, apivars, pc, i, next_trace, ftr_trace, site, signal, exts,
                   result, outcome, rng, old_state, raising, hist>>

\* Mutant: a scope exit that leaves the messenger on the stack.
MessengerExit_NoPop ==
    /\ pc \in {"idle", "done"}
    /\ scopes # <<>>
    /\ Last(scopes).kind = "msngr"
    /\ scopes' = Front(scopes)
    /\ hist' = [hist EXCEPT !.closed = IF pc = "done" THEN @ + 1 ELSE @]
    /\ UNCHANGED <<PYRO_STACK, queue, qcfg, apivars, pc, i, next_trace, ftr_trace, site, signal,
                   exts, result, outcome, rng, old_state, raising>>

\* Messenger.__exit__, on a normal and on an exceptional exit: pop self.
MessengerExit ==
    /\ pc \in {"idle", "done"}
    /\ scopes # <<>>
    /\ Last(scopes).kind = "msngr"
    /\ PYRO_STACK' = Pop(PYRO_STACK, Last(scopes).obj)
    /\ scopes' = Front(scopes)
    /\ hist' = [hist EXCEPT !.badPop = @ \/ ~CleanPop(PYRO_STACK, Last(scopes).obj),
                            !.closed = IF pc = "done" THEN @ + 1 ELSE @]
    /\ UNCHANGED <<queue, qcfg, apivars, pc, i, next_trace, ftr_trace, site, signal, exts,
                   result, outcome, rng, old_state, raising>>

\* An exception raised in the body of the innermost open scope.
Raise ==
    /\ pc = "idle" /\ ~raising
    /\ scopes # <<>>
    /\ raising' = TRUE
    /\ UNCHANGED <<PYRO_STACK, fnvars, rng, old_state, scopes, hist>>

\* The caller catches the exception at the level it has reached.
Catch ==
    /\ pc \in {"idle", "done"}
    /\ raising
    /\ raising' = FALSE
    /\ UNCHANGED <<PYRO_STACK, fnvars, rng, old_state, scopes, hist>>

\* ------------------------------------------------------ SeedMessenger
InnerSeed == Last(SelectSeq(scopes, LAMBDA r : r.kind = "seed"))

\* Mutant: the scope is entered without seeding the RNG.
SeedEnter_NoSeed(o) ==
    /\ pc = "idle" /\ ~raising
    /\ Len(scopes) < MaxDepth
    /\ old_state' = [old_state EXCEPT ![o] = <<get_rng_state(rng)>>]
    /\ scopes' = Append(scopes, [kind |-> "seed", obj |-> o, before |-> rng])
    /\ hist' = [hist EXCEPT !.fresh = TRUE]
    /\ UNCHANGED <<PYRO_STACK, fnvars, rng, raising>>

\* SeedMessenger.__enter__:
\*     self.old_state = get_rng_state(); set_rng_seed(self.rng_seed)
SeedEnter(o) ==
    /\ pc = "idle" /\ ~raising
    /\ Len(scopes) < MaxDepth
    /\ old_state' = [old_state EXCEPT ![o] = <<get_rng_state(rng)>>]
    /\ rng' = set_rng_seed(rng_seed(o))
    /\ scopes' = Append(scopes, [kind |-> "seed", obj |-> o, before |-> rng])
    /\ hist' = [hist EXCEPT !.fresh = TRUE]
    /\ UNCHANGED <<PYRO_STACK, fnvars, raising>>

\* SeedMessenger.__exit__(type, value, traceback), on a normal and on an
\* exceptional exit:  set_rng_state(self.old_state)
SeedExit ==
    /\ pc = "idle"
    /\ scopes # <<>>
    /\ Last(scopes).kind = "seed"
    /\ rng' = set_rng_state(old_state[Last(scopes).obj][1])
    /\ scopes' = Front(scopes)
    /\ hist' = [hist EXCEPT !.fresh = FALSE]
    /\ UNCHANGED <<PYRO_STACK, fnvars, old_state, raising>>

\* One draw from the global RNG, inside or outside the scopes.  The run's
\* earliest draw that is the first one after a Seed scope was entered is
\* remembered.
Draw ==
    /\ pc = "idle" /\ ~raising
    /\ rng' = Advance(rng)
    /\ hist' = [hist EXCEPT
                  !.fresh = FALSE,
                  !.first = IF hist.fresh /\ @ = <<>>
                            THEN <<[seed |-> rng_seed(InnerSeed.obj),
                                    before |-> InnerSeed.before, value |-> Sample(rng)]>>
                            ELSE @]
    /\ UNCHANGED <<PYRO_STACK, fnvars, old_state, scopes, raising>>

\* ------------------------------------------------------ queue(...)._fn
\* The caller calls the queue-wrapped function, once.
CallFn ==
    /\ pc = "idle" /\ ~raising
    /\ pc' = "for"
    /\ i' = 0
    /\ hist' = [hist EXCEPT !.base = PYRO_STACK, !.q0 = queue]
    /\ UNCHANGED <<PYRO_STACK, queue, qcfg, apivars, next_trace, ftr_trace, site, signal, exts,
                   result, outcome, seedvars>>

\* Mutant: the emptiness of the queue is checked before the tries are counted.
ForRange_EmptyFirst ==
    /\ pc = "for"
    /\ IF QEmpty(queue)
       THEN pc' = "done" /\ outcome' = "deadlock" /\ raising' = TRUE
       ELSE /\ pc' = (IF i < max_tries THEN "assert" ELSE "raise")
            /\ outcome' = outcome /\ raising' = raising
    /\ UNCHANGED <<PYRO_STACK, queue, qcfg, apivars, i, next_trace, ftr_trace, site, signal, exts,
                   result, rng, old_state, scopes, hist>>

\* Mutant: one iteration too many, range(max_tries + 1).
ForRange_OffByOne ==
    /\ pc = "for"
    /\ pc' = IF i <= max_tries THEN "assert" ELSE "raise"
    /\ UNCHANGED <<PYRO_STACK, queue, qcfg, apivars, i, next_trace, ftr_trace, site, signal, exts,
                   result, outcome, seedvars, hist>>

\* for i in range(max_tries):
ForRange ==
    /\ pc = "for"
    /\ pc' = IF i < max_tries THEN "assert" ELSE "raise"
    /\ UNCHANGED <<PYRO_STACK, queue, qcfg, apivars, i, next_trace, ftr_trace, site, signal, exts,
                   result, outcome, seedvars, hist>>

\* Mutant: the emptiness check is skipped.
AssertNotEmpty_NoCheck ==
    /\ pc = "assert"
    /\ pc' = "get"
    /\ UNCHANGED <<PYRO_STACK, queue, qcfg, apivars, i, next_trace, ftr_trace, site, signal, exts,
                   result, outcome, seedvars, hist>>

\* assert not queue.empty(), "trying to get() from an empty queue will deadlock"
AssertNotEmpty ==
    /\ pc = "assert"
    /\ hist' = [hist EXCEPT !.checks = @ + 1]
    /\ IF QEmpty(queue)
       THEN pc' = "done" /\ outcome' = "deadlock" /\ raising' = TRUE
       ELSE pc' = "get" /\ outcome' = outcome /\ raising' = raising
    /\ UNCHANGED <<PYRO_STACK, queue, qcfg, apivars, i, next_trace, ftr_trace, site, signal, exts,
                   result, rng, old_state, scopes>>

\* Mutant: the partial trace is read but left in the queue.
QueueGet_Peek ==
    /\ pc = "get"
    /\ queue # <<>>
    /\ next_trace' = QGetItem(queue, qkind)
    /\ hist' = [hist EXCEPT !.pops = @ + 1,
                            !.got = Append(@, QGetItem(queue, qkind)),
                            !.qAfterGet = queue]
    /\ pc' = "enter_trace"
    /\ UNCHANGED <<PYRO_STACK, queue, qcfg, apivars, i, ftr_trace, site, signal, exts,
                   result, outcome, seedvars>>

\* Mutant: the oldest entry is taken whatever the queue's discipline.
QueueGet_Head ==
    /\ pc = "get"
    /\ queue # <<>>
    /\ next_trace' = Head(queue)
    /\ queue' = Tail(queue)
    /\ hist' = [hist EXCEPT !.pops = @ + 1,
                            !.got = Append(@, Head(queue)),
                            !.qAfterGet = Tail(queue)]
    /\ pc' = "enter_trace"
    /\ UNCHANGED <<PYRO_STACK, qcfg, apivars, i, ftr_trace, site, signal, exts,
                   result, outcome, seedvars>>

\* next_trace = queue.get()
QueueGet ==
    /\ pc = "get"
    /\ queue # <<>>
    /\ next_trace' = QGetItem(queue, qkind)
    /\ queue' = QGetRest(queue, qkind)
    /\ hist' = [hist EXCEPT !.pops = @ + 1,
                            !.got = Append(@, QGetItem(queue, qkind)),
                            !.qAfterGet = QGetRest(queue, qkind)]
    /\ pc' = "enter_trace"
    /\ UNCHANGED <<PYRO_STACK, qcfg, apivars, i, ftr_trace, site, signal, exts,
                   result, outcome, seedvars>>

\* The keyword arguments of the handler calls: replay(.., trace=next_trace)
\* and escape(.., escape_fn=functools.partial(escape_fn, next_trace)).
ReplayArgs == <<"trace=next_trace">>
EscapeArgs == <<"escape_fn=partial(escape_fn, next_trace)">>

\* ftr = trace(escape(replay(wrapped, ...), ...)): three handler calls, each
\* constructing a messenger and wrapping the function it is given;
\* ftr(*args, **kwargs): the call enters the Trace scope, which starts a new
\* trace, ...
EnterTrace ==
    /\ pc = "enter_trace"
    /\ handler(ReplayMessenger, "fn_f", ReplayArgs, nmsngrs + 1).kind = "wrapped"
    /\ handler(EscapeMessenger, "fn_wrapped", EscapeArgs, nmsngrs + 2).kind = "wrapped"
    /\ ret' = handler(TraceMessenger, "fn_wrapped", <<>>, nmsngrs + 3)
    /\ nmsngrs' = nmsngrs + 3
    /\ hist' = [hist EXCEPT !.startStacks = Append(@, PYRO_STACK),
                            !.call = [api |-> "handler", cls |-> TraceMessenger,
                                      fn |-> "fn_wrapped", args |-> <<>>,
                                      n0 |-> nmsngrs + 2]]
    /\ PYRO_STACK' = Push(PYRO_STACK, "trace")
    /\ ftr_trace' = <<>>
    /\ pc' = "enter_escape"
    /\ UNCHANGED <<queue, qcfg, modpc, regIdx, namespace, i, next_trace, site, signal,
                   exts, result, outcome, seedvars>>

\* ... then the Escape scope, ...
EnterEscape ==
    /\ pc = "enter_escape"
    /\ PYRO_STACK' = Push(PYRO_STACK, "escape")
    /\ pc' = "enter_replay"
    /\ UNCHANGED <<queue, qcfg, apivars, i, next_trace, ftr_trace, site, signal, exts,
                   result, outcome, seedvars, hist>>

\* ... then the Replay scope.
EnterReplay ==
    /\ pc = "enter_replay"
    /\ PYRO_STACK' = Push(PYRO_STACK, "replay")
    /\ pc' = "run"
    /\ UNCHANGED <<queue, qcfg, apivars, i, next_trace, ftr_trace, site, signal, exts,
                   result, outcome, seedvars, hist>>

\* ------------------------------------------- dispatch of a primitive call
Reverse(s) == [k \in 1..Len(s) |-> s[Len(s) + 1 - k]]

\* Block's before-hook marks the message as stopped for the messengers
\* further out.
Stops(m) == m = "block"

\* Escape's before-hook raises NonlocalExit when escape_fn holds of the
\* partial trace and the site.
HookRaises(m, tr, s) == m = "escape" /\ escape_fn(tr, s)

\* Mutant: the before-hooks are walked in push order, outermost first.
BeforeWalk_PushOrder(st) == st

\* dispatch, step 1: the before-hooks are walked in reverse-of-push order,
\* the messenger entered last is consulted first.
BeforeWalk(st) == Reverse(st)

\* The number of before-hooks that fire: the walk ends at a hook that stops
\* the message or raises.
Fired(st, tr, s) ==
    IF \E k \in 1..Len(st) : Stops(BeforeWalk(st)[k]) \/ HookRaises(BeforeWalk(st)[k], tr, s)
    THEN CHOOSE k \in 1..Len(st) :
             /\ Stops(BeforeWalk(st)[k]) \/ HookRaises(BeforeWalk(st)[k], tr, s)
             /\ \A j \in 1..(k - 1) :
                    ~(Stops(BeforeWalk(st)[j]) \/ HookRaises(BeforeWalk(st)[j], tr, s))
    ELSE Len(st)

BeforeHooks(st, tr, s) == SubSeq(BeforeWalk(st), 1, Fired(st, tr, s))

\* dispatch, step 3: the after-hooks of the messengers that were consulted
\* fire in push order, outermost first; none fires when a before-hook raised.
AfterHooks(st, tr, s) ==
    IF \E k \in 1..Fired(st, tr, s) : HookRaises(BeforeHooks(st, tr, s)[k], tr, s)
    THEN <<>>
    ELSE Reverse(BeforeHooks(st, tr, s))

\* The last site the run of a partial trace dispatches (0: it has no site).
LastSite(tr) == IF RunRaises(tr) THEN failAt
                ELSE IF EscapeSite(tr) # 0 THEN EscapeSite(tr)
                ELSE numSites

Dispatch(st, tr, s) == [stack |-> st, site |-> s,
                        before |-> BeforeHooks(st, tr, s),
                        after |-> AfterHooks(st, tr, s)]

\* The wrapped function runs under Trace(Escape(Replay(.))) of next_trace.
RunWrapped ==
    /\ pc = "run"
    /\ signal' = RunSignal(next_trace)
    /\ ftr_trace' = RunTrace(next_trace)
    /\ site' = IF RunSignal(next_trace) = "NonlocalExit" THEN EscapeSite(next_trace) ELSE 0
    /\ hist' = [hist EXCEPT !.runs = @ + 1,
                            !.order = Append(@, next_trace),
                            !.ends = Append(@, RunSignal(next_trace)),
                            !.disp = IF LastSite(next_trace) = 0 THEN @
                                     ELSE <<Dispatch(PYRO_STACK, next_trace,
                                                     LastSite(next_trace))>>]
    /\ pc' = "exit_replay"
    /\ UNCHANGED <<PYRO_STACK, queue, qcfg, apivars, i, next_trace, exts,
                   result, outcome, seedvars>>

\* Leaving the run, by return or by an exception, exits the three scopes.
ExitScopeOf(m, to) ==
    /\ PYRO_STACK' = Pop(PYRO_STACK, m)
    /\ hist' = [hist EXCEPT !.badPop = @ \/ ~CleanPop(PYRO_STACK, m)]
    /\ pc' = to
    /\ UNCHANGED <<queue, qcfg, apivars, i, next_trace, ftr_trace, site, signal, exts,
                   result, outcome, seedvars>>

ExitReplay == pc = "exit_replay" /\ ExitScopeOf("replay", "exit_escape")

ExitEscape == pc = "exit_escape" /\ ExitScopeOf("escape", "exit_trace")

\* Mutant: the Trace scope is left without popping its messenger.
ExitTrace_NoPop ==
    /\ pc = "exit_trace"
    /\ pc' = CASE signal = "return" -> "return"
               [] signal = "NonlocalExit" -> "except"
               [] OTHER -> "propagate"
    /\ UNCHANGED <<PYRO_STACK, queue, qcfg, apivars, i, next_trace, ftr_trace, site, signal, exts,
                   result, outcome, seedvars, hist>>

ExitTrace ==
    /\ pc = "exit_trace"
    /\ ExitScopeOf("trace", CASE signal = "return" -> "return"
                              [] signal = "NonlocalExit" -> "except"
                              [] OTHER -> "propagate")

\* Mutant: the value of the completed run is not returned; the loop goes on.
Return_LoopsOn ==
    /\ pc = "return"
    /\ result' = <<RetVal(ftr_trace)>>
    /\ pc' = "put"
    /\ UNCHANGED <<PYRO_STACK, queue, qcfg, apivars, i, next_trace, ftr_trace, site, signal, exts,
                   outcome, seedvars, hist>>

\* return ftr(*args, **kwargs)
Return ==
    /\ pc = "return"
    /\ result' = <<RetVal(ftr_trace)>>
    /\ outcome' = "returned"
    /\ pc' = "done"
    /\ UNCHANGED <<PYRO_STACK, queue, qcfg, apivars, i, next_trace, ftr_trace, site, signal, exts,
                   seedvars, hist>>

\* Mutant: the except clause catches every exception.
Propagate_Swallowed ==
    /\ pc = "propagate"
    /\ pc' = "except"
    /\ UNCHANGED <<PYRO_STACK, queue, qcfg, apivars, i, next_trace, ftr_trace, site, signal, exts,
                   result, outcome, seedvars, hist>>

\* An exception that is not NonlocalExit passes the except clause.
Propagate ==
    /\ pc = "propagate"
    /\ outcome' = "error"
    /\ raising' = TRUE
    /\ pc' = "done"
    /\ UNCHANGED <<PYRO_STACK, queue, qcfg, apivars, i, next_trace, ftr_trace, site, signal, exts,
                   result, rng, old_state, scopes, hist>>

\* Mutant: the popped partial trace is put back together with its successors.
ExceptNonlocalExit_Requeue ==
    /\ pc = "except"
    /\ PYRO_STACK' = reset_stack(PYRO_STACK)
    /\ exts' = <<next_trace>> \o extend_fn(ftr_trace, site)
    /\ hist' = [hist EXCEPT !.extCalls = Append(@, <<ftr_trace, site, reset_stack(PYRO_STACK)>>),
                            !.extRet = extend_fn(ftr_trace, site)]
    /\ pc' = "put"
    /\ UNCHANGED <<queue, qcfg, apivars, i, next_trace, ftr_trace, site, signal,
                   result, outcome, seedvars>>

\* except NonlocalExit as site_container:
\*     site_container.reset_stack()
\*     for tr in extend_fn(ftr.trace.copy(), site_container.site, ...):
ExceptNonlocalExit ==
    /\ pc = "except"
    /\ PYRO_STACK' = reset_stack(PYRO_STACK)
    /\ exts' = extend_fn(ftr_trace, site)
    /\ hist' = [hist EXCEPT !.extCalls = Append(@, <<ftr_trace, site, reset_stack(PYRO_STACK)>>),
                            !.extRet = extend_fn(ftr_trace, site)]
    /\ pc' = "put"
    /\ UNCHANGED <<queue, qcfg, apivars, i, next_trace, ftr_trace, site, signal,
                   result, outcome, seedvars>>

\*         queue.put(tr)
QueuePut ==
    /\ pc = "put"
    /\ exts # <<>>
    /\ queue' = QPut(queue, Head(exts))
    /\ exts' = Tail(exts)
    /\ hist' = [hist EXCEPT !.puts = @ + 1]
    /\ UNCHANGED <<PYRO_STACK, qcfg, apivars, pc, i, next_trace, ftr_trace, site, signal,
                   result, outcome, seedvars>>

\* Mutant: the loop goes round without counting the try.
NextIteration_NoCount ==
    /\ pc = "put"
    /\ exts = <<>>
    /\ pc' = "for"
    /\ UNCHANGED <<PYRO_STACK, queue, qcfg, apivars, i, next_trace, ftr_trace, site, signal, exts,
                   result, outcome, seedvars, hist>>

\* The for statement of line 197 is exhausted: on to the next i.
NextIteration ==
    /\ pc = "put"
    /\ exts = <<>>
    /\ i' = i + 1
    /\ pc' = "for"
    /\ UNCHANGED <<PYRO_STACK, queue, qcfg, apivars, next_trace, ftr_trace, site, signal, exts,
                   result, outcome, seedvars, hist>>

\* raise ValueError("max tries ({}) exceeded".format(str(max_tries)))
RaiseMaxTries ==
    /\ pc = "raise"
    /\ outcome' = "max_tries"
    /\ hist' = [hist EXCEPT !.errArg = max_tries]
    /\ raising' = TRUE
    /\ pc' = "done"
    /\ UNCHANGED <<PYRO_STACK, queue, qcfg, apivars, i, next_trace, ftr_trace, site, signal, exts,
                   result, rng, old_state, scopes>>

FnStep ==
    \/ ForRange \/ AssertNotEmpty \/ QueueGet
    \/ EnterTrace \/ EnterEscape \/ EnterReplay \/ RunWrapped
    \/ ExitReplay \/ ExitEscape \/ ExitTrace
    \/ Return \/ Propagate \/ ExceptNonlocalExit \/ QueuePut \/ NextIteration
    \/ RaiseMaxTries

Next ==
    \/ \E m \in AmbientMsngrs : MessengerEnter(m)
    \/ MessengerExit
    \/ Catch
    \/ CallFn
    \/ FnStep

Spec == Init /\ [][Next]_vars

\* The call, once made, runs to its end: every step of _fn is synchronous code.
LiveSpec == Spec /\ WF_vars(FnStep)

SeedInit ==
    /\ InitScopes
    /\ InitIdle
    /\ InitLoaded
    /\ queue = <<>> /\ qkind = "FIFO" /\ max_tries = 0
    /\ numSites = 0 /\ support = 0 /\ failAt = 0

SeedNext ==
    \/ \E o \in SeedObjs : SeedEnter(o)
    \/ SeedExit
    \/ \E m \in SeedSpecMsngrs : MessengerEnter(m)
    \/ MessengerExit
    \/ Draw
    \/ Raise
    \/ Catch

SeedSpec == SeedInit /\ [][SeedNext]_vars

\* ------------------------------------- loading the module, calling handlers
nonapi == <<PYRO_STACK, queue, qcfg, pc, i, next_trace, ftr_trace, site, signal, exts,
            result, outcome, seedvars>>

\* One round of `for _msngr_cls in _msngrs`: the handler is made and bound
\* to its name.
Publish ==
    /\ modpc = "loop"
    /\ regIdx < Len(_msngrs)
    /\ namespace' = Bind(namespace, handler_name(_msngrs[regIdx + 1]),
                         GeneratedHandler(_msngrs[regIdx + 1]))
    /\ regIdx' = regIdx + 1
    /\ modpc' = IF regIdx + 1 = Len(_msngrs) THEN "def_queue" ELSE "loop"
    /\ UNCHANGED <<nmsngrs, ret, nonapi, hist>>

\* def queue(...)
DefQueue ==
    /\ modpc = "def_queue"
    /\ namespace' = Bind(namespace, queue_name, ModuleDef(<<>>))
    /\ modpc' = "def_markov"
    /\ UNCHANGED <<regIdx, nmsngrs, ret, nonapi, hist>>

\* def markov(...)
DefMarkov ==
    /\ modpc = "def_markov"
    /\ namespace' = Bind(namespace, markov_name, ModuleDef(MarkovMessenger))
    /\ modpc' = "loaded"
    /\ UNCHANGED <<regIdx, nmsngrs, ret, nonapi, hist>>

\* A call of one of the generated handlers by its published name.
CallHandler ==
    /\ modpc = "loaded"
    /\ nmsngrs < MaxCalls
    /\ \E n \in DOMAIN namespace, fn \in FnValues, args \in ArgValues :
          /\ namespace[n].kind = "handler"
          /\ ret' = handler(namespace[n].cls, fn, args, nmsngrs + 1)
          /\ nmsngrs' = IF handler(namespace[n].cls, fn, args, nmsngrs + 1).kind = "raise"
                        THEN nmsngrs ELSE nmsngrs + 1
          /\ hist' = [hist EXCEPT !.call = [api |-> "handler", cls |-> namespace[n].cls,
                                            fn |-> fn, args |-> args, n0 |-> nmsngrs]]
    /\ UNCHANGED <<modpc, regIdx, namespace, nonapi>>

\* A call of markov.
CallMarkov ==
    /\ modpc = "loaded"
    /\ nmsngrs < MaxCalls
    /\ markov_name \in DOMAIN namespace
    /\ namespace[markov_name] = ModuleDef(MarkovMessenger)
    /\ \E fn \in FnValues, history \in HistoryValues, keep \in KeepValues,
          dim \in DimValues, name \in NameValues :
          /\ ret' = markov(fn, history, keep, dim, name, nmsngrs + 1)
          /\ nmsngrs' = nmsngrs + 1
          /\ hist' = [hist EXCEPT !.call = [api |-> "markov", cls |-> MarkovMessenger,
                                            fn |-> fn,
                                            args |-> <<history, keep, dim, name>>,
                                            n0 |-> nmsngrs]]
    /\ UNCHANGED <<modpc, regIdx, namespace, nonapi>>

ApiInit ==
    /\ InitScopes
    /\ InitIdle
    /\ queue = <<>> /\ qkind = "FIFO" /\ max_tries = 0
    /\ numSites = 0 /\ support = 0 /\ failAt = 0
    /\ modpc = "loop" /\ regIdx = 0 /\ namespace = <<>>
    /\ nmsngrs = 0 /\ ret = NoRet

ApiNext ==
    \/ Publish
    \/ DefQueue
    \/ DefMarkov
    \/ CallHandler
    \/ CallMarkov

ApiSpec == ApiInit /\ [][ApiNext]_vars

\* ======================================================= the properties
Escaped(k) == hist.ends[k] = "NonlocalExit"
LastRunCompleted == hist.ends # <<>> /\ Last(hist.ends) # "NonlocalExit"
MsngrStackOf(sc) == [k \in 1..Len(SelectSeq(sc, LAMBDA r : r.kind = "msngr"))
                        |-> SelectSeq(sc, LAMBDA r : r.kind = "msngr")[k].obj]

\* The parts of C1: what holds in every state, and what every step keeps.
C1_State ==
    /\ \A k \in 1..(Len(hist.ends) - 1) : Escaped(k)
    /\ outcome = "returned" =>
          /\ hist.ends # <<>> /\ Last(hist.ends) = "return"
          /\ result = <<RetVal(SubSeq(Last(hist.order), 1, numSites))>>
    /\ (hist.ends # <<>> /\ Last(hist.ends) = "return" /\ pc = "done") => outcome = "returned"

C1_Step ==
    LastRunCompleted =>
        /\ queue' = queue
        /\ hist'.runs = hist.runs /\ hist'.pops = hist.pops /\ hist'.puts = hist.puts

\* C1: the call returns the value of the first run that ends without
\* NonlocalExit; a further run happens only after a run that ended in
\* NonlocalExit, and once a run has completed nothing more is popped from
\* the queue, nothing is put onto it and the function is not run again.
C1_ReturnsFirstCompletedRun == [](C1_State) /\ [][C1_Step]_vars

C1_Witness ==
    /\ outcome = "returned" /\ hist.runs >= 3 /\ queue # <<>>

\* C2: the wrapped function is never run more than max_tries times in one
\* call, and when each of the max_tries runs ended in NonlocalExit the call
\* fails with the max-tries ValueError, carrying max_tries, after exactly
\* max_tries pops and max_tries runs.
C2_MaxTriesExhausted ==
    /\ hist.runs <= max_tries
    /\ hist.pops <= max_tries
    /\ outcome = "max_tries" =>
          /\ hist.runs = max_tries /\ hist.pops = max_tries
          /\ hist.errArg = max_tries
          /\ \A k \in 1..max_tries : Escaped(k)
    /\ (pc = "done" /\ hist.runs = max_tries /\ \A k \in 1..max_tries : Escaped(k))
          => outcome = "max_tries"

C2_Witness ==
    /\ outcome = "max_tries" /\ max_tries = 3 /\ hist.runs = 3 /\ hist.pops = 3

\* The parts of C3: the state after the failure, and the failing step.
C3_State ==
    outcome = "deadlock" =>
        /\ pc = "done" /\ queue = <<>>
        /\ hist.pops = i /\ hist.runs = i /\ hist.checks = i + 1 /\ i < max_tries

C3_Step ==
    (pc = "assert" /\ QEmpty(queue)) =>
        /\ outcome' = "deadlock" /\ pc' = "done"
        /\ queue' = queue /\ hist'.pops = hist.pops /\ hist'.runs = hist.runs

\* C3: an iteration that starts with an empty queue ends the call with the
\* deadlock error, without a get() and without a run of the wrapped function,
\* also when the queue is empty because extend_fn returned no successor.
C3_EmptyQueueFails == [](C3_State) /\ [][C3_Step]_vars

C3_Witness ==
    /\ outcome = "deadlock" /\ i = 1
    /\ hist.q0 # <<>> /\ Len(hist.extCalls) = 1 /\ hist.extRet = <<>>

\* The parts of C4: its precondition, the runs a search needs, the final state.
C4_Seeded == hist.q0 = << <<>> >> /\ support >= 1 /\ failAt = 0

RunsNeeded == IF qkind = "LIFO" THEN numSites + 1 ELSE SumPow(support, numSites) + 1

C4_State ==
    (pc = "done" /\ C4_Seeded) =>
        /\ outcome \in {"returned", "max_tries"}
        /\ outcome = "returned" <=> max_tries >= RunsNeeded
        /\ outcome = "returned" =>
              /\ Len(ftr_trace) = numSites
              /\ \A s \in 1..numSites : ftr_trace[s] \in 1..support
              /\ result = <<RetVal(ftr_trace)>>
              /\ hist.runs <= max_tries
        /\ (max_tries = 1 /\ numSites = 2) => (outcome = "max_tries" /\ hist.errArg = 1)

\* C4: with a queue seeded with one empty partial trace, sites of non-empty
\* finite support and a wrapped function that raises nothing of its own, the
\* call ends; it returns the value of a complete trace, after at most
\* max_tries runs, exactly when max_tries covers the runs the search needs
\* (sites + 1 depth-first, 1 + support + ... + support^(sites-1) + 1
\* breadth-first), and fails with the max-tries error otherwise, as it does
\* for max_tries = 1 and two sites.
C4_QueueTerminates ==
    [](C4_State) /\ ((pc = "for" /\ C4_Seeded) ~> (pc = "done"))

C4_Witness ==
    /\ pc = "done" /\ C4_Seeded /\ outcome = "returned"
    /\ qkind = "FIFO" /\ numSites = 2 /\ support = 2 /\ hist.runs = 4

\* The parts of C5: the NonlocalExits handled so far, the queue, the step on.
CaughtSoFar ==
    Cardinality({k \in 1..Len(hist.ends) : Escaped(k)})
      - (IF pc \in {"exit_replay", "exit_escape", "exit_trace", "except"}
            /\ signal = "NonlocalExit" THEN 1 ELSE 0)

C5_State ==
    /\ Len(hist.extCalls) = CaughtSoFar
    /\ \A k \in 1..Len(hist.extCalls) :
          /\ hist.extCalls[k][1] = hist.order[k]
          /\ hist.extCalls[k][2] = Len(hist.order[k]) + 1
    /\ pc = "put" =>
          /\ queue \o exts = hist.qAfterGet \o hist.extRet
          /\ hist.extRet = [v \in 1..support |-> Append(next_trace, v)]
    /\ (pc = "for" /\ i > 0) => queue = hist.qAfterGet \o hist.extRet

C5_Step ==
    (pc = "put" /\ exts = <<>>) => (pc' = "for" /\ i' = i + 1 /\ queue' = queue)

\* C5: each NonlocalExit caught leads to one call of extend_fn, on the trace
\* recorded in the run that escaped and on the escaping site; what it returns
\* is put onto the queue in the order returned, the popped partial trace is
\* not put back, and the loop goes on with the next iteration.
C5_ExtensionsQueued == [](C5_State) /\ [][C5_Step]_vars

C5_Witness ==
    /\ pc = "for" /\ i = 2 /\ support = 2 /\ hist.puts = 4
    /\ Len(hist.extCalls) = 2 /\ hist.qAfterGet # <<>>

\* C6: when NonlocalExit is caught the messenger stack is again what it was
\* before the run started, at the call of extend_fn and until the next run
\* enters its scopes; every run starts on the same stack.
C6_StackRestored ==
    /\ pc \in {"for", "assert", "get", "enter_trace", "except", "put",
               "return", "propagate", "raise"} => PYRO_STACK = hist.base
    /\ pc = "run" => PYRO_STACK = hist.base \o <<"trace", "escape", "replay">>
    /\ \A k \in 1..Len(hist.startStacks) : hist.startStacks[k] = hist.base
    /\ \A k \in 1..Len(hist.extCalls) : hist.extCalls[k][3] = hist.base

C6_Witness ==
    /\ pc = "run" /\ Len(hist.startStacks) = 3 /\ Len(hist.extCalls) = 2
    /\ Len(hist.base) = 2

\* C7: the partial traces are run in the order get() yields them: with a LIFO
\* queue the last successor pushed for an escape is run next (depth first),
\* with a FIFO queue the partial traces run in non-decreasing number of
\* escapes taken (breadth first).
C7_QueueOrder ==
    /\ hist.order = SubSeq(hist.got, 1, Len(hist.order))
    /\ pc \in {"enter_trace", "enter_escape", "enter_replay", "run"}
          => next_trace = Last(hist.got)
    /\ qkind = "LIFO" =>
          \A k \in 2..Len(hist.got) :
              support >= 1 => hist.got[k] = Append(hist.got[k - 1], support)
    /\ qkind = "FIFO" =>
          \A k \in 2..Len(hist.got) : Len(hist.got[k - 1]) <= Len(hist.got[k])

C7_Witness ==
    /\ qkind = "LIFO" /\ Len(hist.got) = 3 /\ support = 2
    /\ Len(hist.q0) = 2 /\ hist.got[3] = <<2, 2>>

\* The step of C8: the exit of a Seed scope.
C8_Step ==
    (scopes # <<>> /\ Last(scopes).kind = "seed" /\ scopes' = Front(scopes))
        => rng' = Last(scopes).before

\* C8: every exit of a Seed scope, normal or by an exception, leaves the
\* global RNG in the state it had immediately before that scope was entered.
C8_SeedExitRestoresRng == [][C8_Step]_vars

\* C9: the RNG state at the first draw inside a Seed(s) scope is the state
\* set_rng_seed(s) gives, whatever the state before the entry and whatever
\* was done before; two scopes of the same seed make the same first draw.
C9_FirstDrawDependsOnSeedOnly ==
    hist.fresh =>
        /\ rng = set_rng_seed(rng_seed(InnerSeed.obj))
        /\ (hist.first # <<>> /\ hist.first[1].seed = rng_seed(InnerSeed.obj))
              => Sample(rng) = hist.first[1].value

C9_Witness ==
    /\ hist.fresh /\ hist.first # <<>>
    /\ hist.first[1].seed = rng_seed(InnerSeed.obj)
    /\ hist.first[1].before # InnerSeed.before
    /\ InnerSeed.before # set_rng_seed(rng_seed(InnerSeed.obj))
    /\ Last(scopes).kind = "msngr"

\* C10: whatever scopes were entered and left, by return, by an exception or
\* by NonlocalExit, the stack holds exactly the messengers of the scopes that
\* are open: it is empty once the outermost scope has exited, and no exit
\* pops a messenger that is not the last one pushed.
C10_StackBalanced ==
    /\ pc \in {"idle", "done"} => PYRO_STACK = MsngrStackOf(scopes)
    /\ (scopes = <<>> /\ pc \in {"idle", "done"}) => PYRO_STACK = <<>>
    /\ ~hist.badPop

C10_Witness ==
    /\ pc = "done" /\ scopes = <<>> /\ PYRO_STACK = <<>> /\ hist.closed = 2
    /\ outcome = "error" /\ \E k \in 1..Len(hist.ends) : Escaped(k)

\* The parts of C16: how a call may end, and the step that lets an exception
\* other than NonlocalExit through.
C16_State ==
    /\ pc = "done" => outcome \in {"returned", "max_tries", "deadlock", "error"}
    /\ pc = "done" => Len(hist.extCalls) = Cardinality({k \in 1..Len(hist.ends) : Escaped(k)})
    /\ outcome = "error" => (hist.ends # <<>> /\ Last(hist.ends) = "Error")
    /\ pc = "except" => signal = "NonlocalExit"
    /\ (hist.ends # <<>> /\ Last(hist.ends) = "Error") =>
          /\ pc \in {"exit_replay", "exit_escape", "exit_trace", "propagate", "done"}
          /\ queue = hist.qAfterGet
          /\ Len(hist.extCalls) = Len(hist.ends) - 1
          /\ pc \in {"propagate", "done"} => "trace" \notin Range(PYRO_STACK)
                                              /\ "escape" \notin Range(PYRO_STACK)
                                              /\ "replay" \notin Range(PYRO_STACK)
          /\ pc = "done" => outcome = "error"

C16_Step ==
    pc = "propagate" =>
        /\ outcome' = "error" /\ raising' /\ pc' = "done"
        /\ queue' = queue /\ PYRO_STACK' = hist.base

\* C16: a NonlocalExit raised in a run is always caught by the call, which
\* ends only by a return, the max-tries error, the empty-queue error or
\* another exception; an exception other than NonlocalExit reaches the
\* caller, nothing is put onto the queue for it and the run's Trace, Escape
\* and Replay messengers are off the stack.
C16_OnlyNonlocalExitIsCaught == [](C16_State) /\ [][C16_Step]_vars

C16_Witness ==
    /\ pc = "done" /\ outcome = "error" /\ raising
    /\ hist.runs = 2 /\ Len(hist.extCalls) = 1 /\ hist.puts = 2
    /\ PYRO_STACK = hist.base /\ Len(hist.base) = 2

\* The parts of C18: occurrences of a partial trace, the successors returned
\* so far, and the steps that leave the queue alone.
RECURSIVE Count(_, _)
Count(x, s) == IF s = <<>> THEN 0
               ELSE (IF Head(s) = x THEN 1 ELSE 0) + Count(x, Tail(s))

RECURSIVE SuccessorsUpTo(_)
SuccessorsUpTo(k) ==
    IF k = 0 THEN <<>>
    ELSE SuccessorsUpTo(k - 1) \o extend_fn(hist.extCalls[k][1], hist.extCalls[k][2])

AllSuccessors == SuccessorsUpTo(Len(hist.extCalls))

C18_State ==
    pc # "idle" =>
        /\ Len(queue) + Len(exts) = Len(hist.q0) - hist.pops + Len(AllSuccessors)
        /\ \A t \in Range(hist.q0) \cup Range(AllSuccessors) \cup Range(queue) :
              Count(t, queue \o exts) + Count(t, hist.got)
                 = Count(t, hist.q0) + Count(t, AllSuccessors)
        /\ hist.pops = i + (IF pc \in {"for", "assert", "get", "raise"}
                               \/ (pc = "done" /\ outcome \in {"deadlock", "max_tries"})
                            THEN 0 ELSE 1)
        /\ hist.puts = Len(AllSuccessors) - Len(exts)

C18_Step == pc \in {"return", "propagate", "raise", "done"} => queue' = queue

\* C18: every iteration takes exactly one partial trace from the queue, so
\* the queue always holds the entries it was seeded with, less the ones
\* popped, plus the successors extend_fn returned; a return, the max-tries
\* error and any other exception leave the queue as it is, the popped trace
\* not put back.
C18_QueueAccounting == [](C18_State) /\ [][C18_Step]_vars

C18_Witness ==
    /\ pc = "done" /\ outcome = "max_tries" /\ hist.pops = 3
    /\ Len(hist.q0) = 2 /\ Len(queue) = 5 /\ qkind = "FIFO"

\* C19: the queue is looked at only at the start of an iteration: when the
\* tries are used up the call fails with the max-tries error whatever the
\* queue holds, with max_tries = 0 at once, without a look at the queue and
\* without a run; the empty-queue error needs an iteration that is left.
C19_ErrorPrecedence ==
    /\ hist.checks <= max_tries
    /\ outcome = "deadlock" => (i < max_tries /\ hist.checks = i + 1)
    /\ outcome = "max_tries" => (i = max_tries /\ hist.checks = max_tries)
    /\ pc = "raise" => i = max_tries
    /\ (pc = "done" /\ i = max_tries) => outcome = "max_tries"
    /\ (pc = "done" /\ max_tries = 0) =>
          /\ outcome = "max_tries"
          /\ hist.checks = 0 /\ hist.pops = 0 /\ hist.runs = 0 /\ queue = hist.q0

C19_Witness ==
    /\ outcome = "max_tries" /\ queue = <<>> /\ max_tries = 2
    /\ hist.q0 # <<>> /\ hist.runs = 2

\* The messengers of all the scopes that are open, outermost first.
OpenScopeObjs == [k \in 1..Len(scopes) |-> scopes[k].obj]

\* C14: every scope that is entered, a Seed scope included, puts its
\* messenger on the stack next to its own setup, and every scope exit, normal
\* or by an exception, takes it off again: between the steps the stack holds
\* the messengers of the open scopes, in the order they were entered.
C14_EveryScopeOnStack ==
    pc = "idle" => PYRO_STACK = OpenScopeObjs

\* The step of C15: the exit of a Seed scope in a nest of Seed scopes.
C15_Step ==
    (/\ scopes # <<>>
     /\ \A k \in 1..Len(scopes) : scopes[k].kind = "seed"
     /\ scopes' = Front(scopes))
        => /\ rng' = Last(scopes).before
           /\ scopes' = <<>> => rng' = scopes[1].before

\* C15: in a nest of Seed scopes, also when one Seed handler object is
\* entered again while it is active, each exit puts the RNG back into the
\* state it had just before the matching entry, and the outermost exit into
\* the state before the outermost entry.
C15_NestedSeedRestores == [][C15_Step]_vars

\* The dispatch of the last primitive call of the last run.
LastDispatch == hist.disp[1]

\* C11: for a primitive call the before-hooks fire in reverse-of-push order
\* and the after-hooks in push order: of two messengers on the stack whose
\* hooks both fire, the one pushed later has its before-hook first and its
\* after-hook last; under Trace(Escape(Replay(fn))) Replay's before-hook
\* comes first, then Escape's, then Trace's, then those of the messengers
\* the call was made under.
C11_DispatchOrder ==
    hist.disp # <<>> =>
        /\ LastDispatch.stack = hist.base \o <<"trace", "escape", "replay">>
        /\ \A k \in 1..Len(LastDispatch.before) :
              LastDispatch.before[k]
                 = LastDispatch.stack[Len(LastDispatch.stack) + 1 - k]
        /\ Len(LastDispatch.before) >= 2
        /\ LastDispatch.before[1] = "replay" /\ LastDispatch.before[2] = "escape"
        /\ Len(LastDispatch.before) >= 3 => LastDispatch.before[3] = "trace"
        /\ LastDispatch.after # <<>> =>
              /\ Len(LastDispatch.after) = Len(LastDispatch.before)
              /\ \A k \in 1..Len(LastDispatch.after) :
                    LastDispatch.after[k]
                       = LastDispatch.stack[Len(LastDispatch.stack)
                                              - Len(LastDispatch.after) + k]
        /\ (~escape_fn(hist.order[Len(hist.order)], LastDispatch.site)
               /\ \A k \in 1..Len(hist.base) : ~Stops(hist.base[k]))
              => /\ LastDispatch.before = Reverse(LastDispatch.stack)
                 /\ LastDispatch.after = LastDispatch.stack

C11_Witness ==
    /\ hist.disp # <<>>
    /\ hist.base = <<"block", "scale">>
    /\ LastDispatch.before = <<"replay", "escape", "trace", "scale", "block">>
    /\ LastDispatch.after = <<"block", "scale", "trace", "escape", "replay">>
    /\ Len(hist.ends) = 3

\* The parts of C12: the last call, and whether the class's constructor
\* takes the remaining arguments.
LastCall == hist.call

Accepted == ~(LastCall.cls = SeedMessenger
                /\ (Len(LastCall.args) # 1 \/ ~isint(LastCall.args[1])))

NewMsngr == [cls |-> LastCall.cls, args |-> LastCall.args, id |-> LastCall.n0 + 1]

\* C12: a generated handler called with a first argument that is neither
\* None nor callable raises the ValueError that names the argument, and no
\* messenger has been constructed; called without a first argument it
\* returns a new messenger of its class built from the remaining arguments;
\* called with a callable it returns the callable wrapped by such a messenger.
C12_HandlerModes ==
    LastCall.api = "handler" =>
        /\ (LastCall.fn # None /\ ~callable(LastCall.fn)) =>
              /\ ret.kind = "raise" /\ ret.exc = "ValueError" /\ ret.arg = LastCall.fn
              /\ ret.msngr = NoMsngr /\ nmsngrs = LastCall.n0
        /\ (LastCall.fn = None /\ Accepted) =>
              /\ ret.kind = "msngr" /\ ret.msngr = NewMsngr /\ ret.fn = None
              /\ nmsngrs = LastCall.n0 + 1
        /\ (callable(LastCall.fn) /\ Accepted) =>
              /\ ret.kind = "wrapped" /\ ret.msngr = NewMsngr /\ ret.fn = LastCall.fn
              /\ nmsngrs = LastCall.n0 + 1

C12_Witness ==
    /\ LastCall.api = "handler" /\ LastCall.cls = SeedMessenger
    /\ LastCall.fn = "dict_d" /\ LastCall.args = <<"dict_d">>
    /\ ret.exc = "ValueError" /\ LastCall.n0 = 1 /\ nmsngrs = 1

\* The parts of C13: the handler names expected, in the order of _msngrs,
\* what holds in every state, and what a round of the loop keeps.
C13_Names ==
    <<<<"b", "l", "o", "c", "k">>,
      <<"b", "r", "o", "a", "d", "c", "a", "s", "t">>,
      <<"c", "o", "n", "d", "i", "t", "i", "o", "n">>,
      <<"d", "o">>,
      <<"e", "n", "u", "m">>,
      <<"e", "s", "c", "a", "p", "e">>,
      <<"i", "n", "f", "e", "r", "_", "c", "o", "n", "f", "i", "g">>,
      <<"l", "i", "f", "t">>,
      <<"m", "a", "r", "k", "o", "v">>,
      <<"m", "a", "s", "k">>,
      <<"r", "e", "p", "l", "a", "y">>,
      <<"s", "c", "a", "l", "e">>,
      <<"s", "e", "e", "d">>,
      <<"t", "r", "a", "c", "e">>,
      <<"u", "n", "c", "o", "n", "d", "i", "t", "i", "o", "n">>>>

C13_State ==
    /\ Len(_msngrs) = 15
    /\ \A k \in 1..Len(_msngrs) : handler_name(_msngrs[k]) = C13_Names[k]
    /\ \A j, k \in 1..Len(_msngrs) :
          j # k => handler_name(_msngrs[j]) # handler_name(_msngrs[k])
    /\ \A k \in 1..regIdx : handler_name(_msngrs[k]) \in DOMAIN namespace
    /\ modpc \in {"loop", "def_queue", "def_markov"} =>
          \A k \in 1..regIdx :
              namespace[handler_name(_msngrs[k])] = GeneratedHandler(_msngrs[k])
    /\ modpc = "loaded" =>
          /\ regIdx = Len(_msngrs)
          /\ namespace[markov_name] = ModuleDef(MarkovMessenger)
          /\ \A k \in 1..Len(_msngrs) :
                handler_name(_msngrs[k]) # markov_name =>
                    namespace[handler_name(_msngrs[k])] = GeneratedHandler(_msngrs[k])
          /\ Cardinality({k \in 1..Len(_msngrs) :
                namespace[handler_name(_msngrs[k])] = GeneratedHandler(_msngrs[k])}) = 14

C13_Step ==
    modpc = "loop" => \A n \in DOMAIN namespace :
                          n \in DOMAIN namespace' /\ namespace'[n] = namespace[n]

\* C13, as stated: the name derived from every class of _msngrs the loop has
\* done is bound to the handler generated for that class.
C13_EveryNameOwnHandler ==
    \A k \in 1..regIdx :
        /\ handler_name(_msngrs[k]) \in DOMAIN namespace
        /\ namespace[handler_name(_msngrs[k])] = GeneratedHandler(_msngrs[k])

\* C13, amended: the handler of every class of _msngrs is published under the
\* class name without "Messenger", in lower case with an underscore at each
\* word boundary (trace, infer_config); the 15 names differ from one another
\* and no round of the loop rebinds a name, so when the loop ends each name is
\* bound to the handler of its own class; in the loaded module 14 of the names
\* still are, and markov is bound to the module's own def markov, which has
\* replaced the handler generated for MarkovMessenger.
C13_HandlerNames == [](C13_State) /\ [][C13_Step]_vars

C13_Witness ==
    /\ modpc = "loaded" /\ regIdx = 15 /\ Cardinality(DOMAIN namespace) = 16
    /\ namespace[<<"i", "n", "f", "e", "r", "_", "c", "o", "n", "f", "i", "g">>]
          = GeneratedHandler(InferConfigMessenger)
    /\ namespace[<<"t", "r", "a", "c", "e">>] = GeneratedHandler(TraceMessenger)
    /\ namespace[<<"m", "a", "r", "k", "o", "v">>] = ModuleDef(MarkovMessenger)
    /\ LastCall.api = "markov"

\* C17: markov takes its mode from its first argument: None gives a Markov
\* messenger, a non-callable value gives the messenger's generator over it
\* where a generated handler raises the ValueError, a callable gives the
\* callable wrapped by the messenger; in each mode the messenger is built
\* from the history, keep, dim and name of the call.
C17_MarkovModes ==
    LastCall.api = "markov" =>
        /\ ret.msngr = [cls |-> MarkovMessenger, args |-> LastCall.args,
                        id |-> LastCall.n0 + 1]
        /\ nmsngrs = LastCall.n0 + 1
        /\ ret.exc = ""
        /\ LastCall.fn = None => (ret.kind = "msngr" /\ ret.fn = None)
        /\ (LastCall.fn # None /\ ~callable(LastCall.fn)) =>
              /\ ret.kind = "generator" /\ ret.fn = LastCall.fn
              /\ handler(MarkovMessenger, LastCall.fn, LastCall.args,
                         LastCall.n0 + 1).exc = "ValueError"
        /\ callable(LastCall.fn) => (ret.kind = "wrapped" /\ ret.fn = LastCall.fn)

C17_Witness ==
    /\ LastCall.api = "markov" /\ LastCall.fn = "int_3"
    /\ ret.kind = "generator" /\ ret.fn = "int_3"
    /\ ret.msngr.args = <<"int_2", "True", "int_3", "str_x">>

====
